---- MODULE Spec2Model ----
(***************************************************************************)
(* Model of the UPI fraud-detection decision core:                         *)
(*   models/decision_engine.py  FraudDecisionEngine, FraudActionProcessor  *)
(*   models/fraud_pipeline.py   FraudDetectionPipeline                     *)
(*   config/config.py           FRAUD_THRESHOLDS, RISK_LEVELS              *)
(*   api/fraud_api.py           detect_fraud                               *)
(*                                                                         *)
(* Scores, thresholds and band limits are fixed-point numbers in           *)
(* hundredths (0.4 is 40); confidences are in thousandths (1.0 is 1000).   *)
(* Amounts are whole rupees.                                               *)
(***************************************************************************)
EXTENDS Integers, Sequences, FiniteSets, TLC

VARIABLES
    thresholds,   \* the dict FRAUD_THRESHOLDS that engine.thresholds refers to
    call,         \* the arguments of the last make_decision call
    decision,     \* what that call returned (or that it raised)
    upc,          \* updater threads: position inside update_thresholds
    upayload,     \* updater threads: the new_thresholds argument
    uresult,      \* updater threads: the value update_thresholds returned
    dpc,          \* deciding thread: position inside make_decision
    dview,        \* deciding thread: the threshold values its reads returned
    seen,         \* history: the (allow, block) pairs the engine has held
                  \* since the deciding thread's call began
    is_loaded,    \* pipeline.is_loaded
    ppc,          \* predict_fraud: position in the call
    ptxn,         \* predict_fraud: the transaction_data argument
    penv,         \* predict_fraud: what the collaborators will do in this call
    pscore,       \* predict_fraud: the local fraud_score after the clamp
    plog,         \* history: the steps predict_fraud has taken, in order
    presult,      \* predict_fraud: what the call returned (or that it raised)
    http,         \* detect_fraud: whether the request is JSON, and the response
    batch,        \* batch_predict: the list passed in, the loop position, the results
    info,         \* the value a get_threshold_info call returned to its caller,
                  \* with history: the thresholds at that time, the caller's writes
    engines,      \* the FraudDecisionEngine objects constructed so far (objs),
                  \* with history
    aresponse     \* what the last direct process_action call returned

decVars == <<call, decision>>
updVars == <<upc, upayload, uresult>>
raceVars == <<dpc, dview, seen>>
pipeVars == <<is_loaded, ppc, ptxn, penv, pscore, plog, presult, http>>
extVars == <<batch, info, engines, aresponse>>
vars ==
    <<thresholds, call, decision, upc, upayload, uresult, dpc, dview, seen,
      is_loaded, ppc, ptxn, penv, pscore, plog, presult, http, batch, info, engines,
      aresponse>>

----------------------------------------------------------------------------
(* Python values that reach the numeric checks: a number, the floats nan,   *)
(* inf and -inf, or a value that is not a number at all (a str).            *)

Num(n) == [k |-> "num", v |-> n]
NaN == [k |-> "nan", v |-> 0]
Str == [k |-> "str", v |-> 0]
PosInf == [k |-> "inf", v |-> 1]
NegInf == [k |-> "inf", v |-> -1]

\* isinstance(x, (int, float)): nan and the infinities are floats
IsNumber(x) == x.k \in {"num", "nan", "inf"}

\* x < y on floats: every comparison with nan is False
Lt(x, y) ==
    \/ x.k = "num" /\ y.k = "num" /\ x.v < y.v
    \/ x = NegInf /\ (y.k = "num" \/ y = PosInf)
    \/ x.k = "num" /\ y = PosInf

\* x <= y on floats
Le(x, y) == Lt(x, y) \/ (x = y /\ x.k \in {"num", "inf"})

\* abs(x - y) on floats: nan propagates, inf - inf is nan
AbsDiff(x, y) ==
    IF x.k = "num" /\ y.k = "num"
    THEN Num(IF x.v >= y.v THEN x.v - y.v ELSE y.v - x.v)
    ELSE IF x.k = "nan" \/ y.k = "nan" \/ x = y
    THEN NaN
    ELSE PosInf

\* Python's min(x, y): y when y < x, else x
PyMin(x, y) == IF Lt(y, x) THEN y ELSE x

\* Python's max(x, y): y when y > x, else x
PyMax(x, y) == IF Lt(x, y) THEN y ELSE x

\* dict.get(key, default) on a mapping whose entries are optional fields
Get(d, key, default) == IF d[key].has THEN d[key].v ELSE default

Some(x) == [has |-> TRUE, v |-> x]
Absent(x) == [has |-> FALSE, v |-> x]

\* a field holding float('nan'): every comparison with it is False, so v is
\* never read
NanValue == [has |-> TRUE, v |-> 0, nan |-> TRUE]
IsNan(d, key) == "nan" \in DOMAIN d[key]

----------------------------------------------------------------------------
(* config/config.py *)

FRAUD_THRESHOLDS == [allow |-> Num(40), verify |-> Num(70), block |-> Num(70)]

\* RISK_LEVELS, in the dict's insertion order
RISK_LEVELS == <<
    [level |-> "LOW", min |-> Num(0), max |-> Num(40)],
    [level |-> "MEDIUM", min |-> Num(40), max |-> Num(70)],
    [level |-> "HIGH", min |-> Num(70), max |-> Num(100)] >>

----------------------------------------------------------------------------
(* FraudDecisionEngine: the pure parts.  th is the thresholds mapping the  *)
(* reads see.                                                              *)

\* variant: the allow comparison made inclusive
get_base_action_inclusive(th, fraud_score) ==
    IF Le(fraud_score, th["allow"]) THEN "ALLOW"
    ELSE IF Lt(fraud_score, th["block"]) THEN "VERIFY"
    ELSE "BLOCK"

get_base_action(th, fraud_score) ==
    IF Lt(fraud_score, th["allow"]) THEN "ALLOW"
    ELSE IF Lt(fraud_score, th["block"]) THEN "VERIFY"
    ELSE "BLOCK"

RECURSIVE risk_scan(_, _)
risk_scan(i, fraud_score) ==
    IF i > Len(RISK_LEVELS) THEN "HIGH"
    ELSE IF Le(RISK_LEVELS[i].min, fraud_score) /\ Lt(fraud_score, RISK_LEVELS[i].max)
         THEN RISK_LEVELS[i].level
         ELSE risk_scan(i + 1, fraud_score)

\* variant: the bands closed at both ends
RECURSIVE risk_scan_closed(_, _)
risk_scan_closed(i, fraud_score) ==
    IF i > Len(RISK_LEVELS) THEN "HIGH"
    ELSE IF Le(RISK_LEVELS[i].min, fraud_score) /\ Le(fraud_score, RISK_LEVELS[i].max)
         THEN RISK_LEVELS[i].level
         ELSE risk_scan_closed(i + 1, fraud_score)

get_risk_level_closed(fraud_score) == risk_scan_closed(1, fraud_score)

\* variant: bands that follow the thresholds the engine holds
get_risk_level_following(fraud_score) ==
    IF Lt(fraud_score, thresholds["allow"]) THEN "LOW"
    ELSE IF Lt(fraud_score, thresholds["block"]) THEN "MEDIUM"
    ELSE "HIGH"

get_risk_level(fraud_score) == risk_scan(1, fraud_score)

\* variant: the distance to the farther threshold
calculate_confidence_farther(th, fraud_score) ==
    LET max_distance == PyMax(AbsDiff(fraud_score, th["allow"]),
                              AbsDiff(fraud_score, th["block"]))
        scaled == IF max_distance.k = "num" THEN Num(max_distance.v * 50) ELSE max_distance
    IN  PyMin(Num(1000), scaled).v

\* confidence in thousandths: round(min(1.0, min_distance / 0.2), 3)
calculate_confidence(th, fraud_score) ==
    LET min_distance == PyMin(AbsDiff(fraud_score, th["allow"]),
                              AbsDiff(fraud_score, th["block"]))
        scaled == IF min_distance.k = "num" THEN Num(min_distance.v * 50) ELSE min_distance
    IN  PyMin(Num(1000), scaled).v

\* the five risk indicators of business rule 3, in the order they are tested
indicator_reasons(td) ==
    (IF Get(td, "is_unusual_hour", 0) = 1 THEN <<"Unusual transaction hour">> ELSE <<>>)
    \o (IF Get(td, "device_id", "None") # Get(td, "preferred_device", "None")
        THEN <<"New/different device">> ELSE <<>>)
    \o (IF Get(td, "geo_distance_from_last_txn", 0) > 100
        THEN <<"Distant location">> ELSE <<>>)
    \o (IF Get(td, "transaction_frequency_last_24h", 0) > 10
        THEN <<"High transaction frequency">> ELSE <<>>)
    \o (IF Get(td, "receiver_fraud_reports", 0) > 3
        THEN <<"High-risk receiver">> ELSE <<>>)

FinalEntry(action) ==
    CASE action = "ALLOW" -> "Final action: ALLOW"
      [] action = "VERIFY" -> "Final action: VERIFY"
      [] OTHER -> "Final action: BLOCK"

BaseEntry(action) ==
    CASE action = "ALLOW" -> "Base action: ALLOW"
      [] action = "VERIFY" -> "Base action: VERIFY"
      [] OTHER -> "Base action: BLOCK"

MultipleEntry(n) ==
    CASE n = 3 -> "Multiple risk indicators (3)"
      [] n = 4 -> "Multiple risk indicators (4)"
      [] OTHER -> "Multiple risk indicators (5)"

TooManyEntry(n) ==
    CASE n = 4 -> "Too many risk indicators (4)"
      [] OTHER -> "Too many risk indicators (5)"

\* variant: rule 1 with a factor of 10
rule_high_amount_10x(st, td) ==
    IF ~IsNan(td, "amount")
       /\ Get(td, "amount", 0) > Get(td, "avg_amount_last_week", 0) * 10
       /\ st.action = "ALLOW"
    THEN [action |-> "VERIFY",
          reasoning |-> Append(st.reasoning, "High amount transaction (>5x average)")]
    ELSE st

\* rule 1: high amount
rule_high_amount(st, td) ==
    IF ~IsNan(td, "amount")
       /\ Get(td, "amount", 0) > Get(td, "avg_amount_last_week", 0) * 5
       /\ st.action = "ALLOW"
    THEN [action |-> "VERIFY",
          reasoning |-> Append(st.reasoning, "High amount transaction (>5x average)")]
    ELSE st

\* rule 2: new receiver with significant amount
rule_new_receiver(st, td) ==
    IF Get(td, "receiver_age_days", 365) < 7
       /\ ~IsNan(td, "amount") /\ Get(td, "amount", 0) > 10000
       /\ st.action = "ALLOW"
    THEN [action |-> "VERIFY",
          reasoning |-> Append(st.reasoning, "New receiver (<7 days) with high amount")]
    ELSE st

\* variant: the tally compared with > where the code has >=
rule_risk_indicators_strict(st, td) ==
    LET found == indicator_reasons(td)
        risk_indicators == Len(found)
        listed == st.reasoning \o found
    IN  IF risk_indicators > 3 /\ st.action = "ALLOW"
        THEN [action |-> "VERIFY",
              reasoning |-> Append(listed, MultipleEntry(risk_indicators))]
        ELSE IF risk_indicators > 4 /\ st.action = "VERIFY"
        THEN [action |-> "BLOCK",
              reasoning |-> Append(listed, TooManyEntry(risk_indicators))]
        ELSE [action |-> st.action, reasoning |-> listed]

\* variant: the two comparisons of the tally made one after the other
rule_risk_indicators_twice(st, td) ==
    LET found == indicator_reasons(td)
        risk_indicators == Len(found)
        listed == st.reasoning \o found
        first == IF risk_indicators >= 3 /\ st.action = "ALLOW"
                 THEN [action |-> "VERIFY",
                       reasoning |-> Append(listed, MultipleEntry(risk_indicators))]
                 ELSE [action |-> st.action, reasoning |-> listed]
    IN  IF risk_indicators >= 4 /\ first.action = "VERIFY"
        THEN [action |-> "BLOCK",
              reasoning |-> Append(first.reasoning, TooManyEntry(risk_indicators))]
        ELSE first

\* rule 3: the indicator tally; the indicator reasons are appended in any case
rule_risk_indicators(st, td) ==
    LET found == indicator_reasons(td)
        risk_indicators == Len(found)
        listed == st.reasoning \o found
    IN  IF risk_indicators >= 3 /\ st.action = "ALLOW"
        THEN [action |-> "VERIFY",
              reasoning |-> Append(listed, MultipleEntry(risk_indicators))]
        ELSE IF risk_indicators >= 4 /\ st.action = "VERIFY"
        THEN [action |-> "BLOCK",
              reasoning |-> Append(listed, TooManyEntry(risk_indicators))]
        ELSE [action |-> st.action, reasoning |-> listed]

\* variant: rule 4 letting a VIP's transaction through
rule_vip_to_allow(st, td) ==
    IF Get(td, "user_type", "regular") = "vip" /\ st.action = "BLOCK"
    THEN [action |-> "ALLOW",
          reasoning |-> Append(st.reasoning, "VIP user - downgraded to verification")]
    ELSE st

\* rule 4: VIP protection
rule_vip(st, td) ==
    IF Get(td, "user_type", "regular") = "vip" /\ st.action = "BLOCK"
    THEN [action |-> "VERIFY",
          reasoning |-> Append(st.reasoning, "VIP user - downgraded to verification")]
    ELSE st

\* variant: the night ending one hour early
rule_micro_night_before_five(st, td) ==
    LET transaction_hour == Get(td, "transaction_time", 12)
    IN  IF ~IsNan(td, "amount") /\ Get(td, "amount", 0) < 50
           /\ (transaction_hour < 5 \/ transaction_hour >= 23)
           /\ st.action = "ALLOW"
        THEN [action |-> "VERIFY",
              reasoning |-> Append(st.reasoning, "Micro transaction during night hours")]
        ELSE st

\* rule 5: micro transactions during night
rule_micro_night(st, td) ==
    LET transaction_hour == Get(td, "transaction_time", 12)
    IN  IF ~IsNan(td, "amount") /\ Get(td, "amount", 0) < 50
           /\ (transaction_hour <= 5 \/ transaction_hour >= 23)
           /\ st.action = "ALLOW"
        THEN [action |-> "VERIFY",
              reasoning |-> Append(st.reasoning, "Micro transaction during night hours")]
        ELSE st

\* variant: the VIP rule applied before the indicator tally
apply_business_rules_vip_first(base_action, hasData, td) ==
    LET start == [action |-> base_action, reasoning |-> <<"Fraud score">>]
    IN  IF ~hasData
        THEN [action |-> base_action,
              reasoning |-> Append(start.reasoning, BaseEntry(base_action))]
        ELSE LET r1 == rule_high_amount(start, td)
                 r2 == rule_new_receiver(r1, td)
                 r3 == rule_vip(r2, td)
                 r4 == rule_risk_indicators(r3, td)
                 r5 == rule_micro_night(r4, td)
             IN  [action |-> r5.action,
                  reasoning |-> Append(r5.reasoning, FinalEntry(r5.action))]

\* _apply_business_rules: (final_action, reasoning)
apply_business_rules(base_action, hasData, td) ==
    LET start == [action |-> base_action, reasoning |-> <<"Fraud score">>]
    IN  IF ~hasData
        THEN [action |-> base_action,
              reasoning |-> Append(start.reasoning, BaseEntry(base_action))]
        ELSE LET r1 == rule_high_amount(start, td)
                 r2 == rule_new_receiver(r1, td)
                 r3 == rule_risk_indicators(r2, td)
                 r4 == rule_vip(r3, td)
                 r5 == rule_micro_night(r4, td)
             IN  [action |-> r5.action,
                  reasoning |-> Append(r5.reasoning, FinalEntry(r5.action))]

Raised(msg) ==
    [status |-> "raised", error |-> msg, fraud_score |-> NaN, risk_level |-> "",
     action |-> "", reasoning |-> <<>>, confidence |-> 0]

\* no decision record (yet)
NoDecision ==
    [status |-> "none", error |-> "", fraud_score |-> NaN, risk_level |-> "",
     action |-> "", reasoning |-> <<>>, confidence |-> 0]

\* make_decision, where thBase is what _get_base_action reads from
\* self.thresholds and thConf what _calculate_confidence reads later
make_decision_reading(thBase, thConf, fraud_score, hasData, td) ==
    IF ~IsNumber(fraud_score)
    THEN Raised("Fraud score must be a number")
    ELSE IF Lt(fraud_score, Num(0)) \/ Lt(Num(100), fraud_score)
    THEN Raised("Fraud score must be between 0 and 1")
    ELSE LET base_action == get_base_action(thBase, fraud_score)
             ruled == apply_business_rules(base_action, hasData, td)
         IN  [status |-> "returned", error |-> "", fraud_score |-> fraud_score,
              risk_level |-> get_risk_level(fraud_score),
              action |-> ruled.action, reasoning |-> ruled.reasoning,
              confidence |-> calculate_confidence(thConf, fraud_score)]

\* make_decision run with no other thread writing self.thresholds
make_decision(th, fraud_score, hasData, td) ==
    make_decision_reading(th, th, fraud_score, hasData, td)

----------------------------------------------------------------------------
(* update_thresholds / _validate_thresholds.  A payload is the argument    *)
(* new_thresholds: a dict (isdict, with entries m) or something else.      *)

Keys(m) == DOMAIN m

validate_thresholds(th, p) ==
    IF ~p.isdict THEN FALSE
    ELSE IF \E key \in Keys(p.m) :
               key \in Keys(th)
               /\ (~IsNumber(p.m[key])
                   \/ ~(Le(Num(0), p.m[key]) /\ Le(p.m[key], Num(100))))
    THEN FALSE
    ELSE LET test_thresholds ==
                 [key \in Keys(th) \cup Keys(p.m) |->
                     IF key \in Keys(p.m) THEN p.m[key] ELSE th[key]]
         IN  Lt(test_thresholds["allow"], test_thresholds["block"])

\* self.thresholds.update(new_thresholds)
dict_update(th, p) ==
    [key \in Keys(th) \cup Keys(p.m) |-> IF key \in Keys(p.m) THEN p.m[key] ELSE th[key]]

----------------------------------------------------------------------------
(* FraudActionProcessor.process_action.  A response lists its fixed fields; *)
(* extras names the further keys it carries.                               *)

NoResponse ==
    [status |-> "", action |-> "", message |-> "", user_message |-> "",
     next_steps |-> <<>>, extras |-> {}]

\* variant: the VERIFY branch answering like the ALLOW branch
process_action_verify_approved(decision_result) ==
    IF decision_result.action \in {"ALLOW", "VERIFY"}
    THEN [status |-> "success", action |-> decision_result.action,
          message |-> "Transaction approved successfully",
          user_message |-> "Your transaction has been processed",
          next_steps |-> <<"complete_transaction">>,
          extras |-> {"fraud_score", "risk_level"}]
    ELSE IF decision_result.action = "BLOCK"
    THEN [status |-> "blocked", action |-> "BLOCK",
          message |-> "Transaction blocked due to security concerns",
          user_message |-> "Transaction could not be processed. Please contact customer support if you believe this is an error.",
          next_steps |-> <<"contact_support", "manual_review">>,
          extras |-> {"support_reference", "fraud_score", "risk_level"}]
    ELSE [status |-> "error", action |-> "UNKNOWN",
          message |-> "Unable to process transaction",
          user_message |-> "Technical error occurred. Please try again later.",
          next_steps |-> <<"retry_later", "contact_support">>,
          extras |-> {"fraud_score", "risk_level"}]

process_action(decision_result) ==
    IF decision_result.action = "ALLOW"
    THEN [status |-> "success", action |-> "ALLOW",
          message |-> "Transaction approved successfully",
          user_message |-> "Your transaction has been processed",
          next_steps |-> <<"complete_transaction">>,
          extras |-> {"fraud_score", "risk_level"}]
    ELSE IF decision_result.action = "VERIFY"
    THEN [status |-> "pending", action |-> "VERIFY",
          message |-> "Additional verification required",
          user_message |-> "Please complete additional verification for security",
          next_steps |-> <<"send_otp", "request_verification">>,
          extras |-> {"verification_methods", "fraud_score", "risk_level"}]
    ELSE IF decision_result.action = "BLOCK"
    THEN [status |-> "blocked", action |-> "BLOCK",
          message |-> "Transaction blocked due to security concerns",
          user_message |-> "Transaction could not be processed. Please contact customer support if you believe this is an error.",
          next_steps |-> <<"contact_support", "manual_review">>,
          extras |-> {"support_reference", "fraud_score", "risk_level"}]
    ELSE [status |-> "error", action |-> "UNKNOWN",
          message |-> "Unable to process transaction",
          user_message |-> "Technical error occurred. Please try again later.",
          next_steps |-> <<"retry_later", "contact_support">>,
          extras |-> {"fraud_score", "risk_level"}]

----------------------------------------------------------------------------
(* FraudDetectionPipeline: the pure parts.  A transaction_data argument is *)
(* a dict (isdict) with entries td, of which those named in strs hold a    *)
(* str where a number is expected; or it is no dict at all.                *)

\* an exception: its class, its message and, for the missing-fields
\* message, the fields the message lists
Exc(type, msg) == [type |-> type, msg |-> msg, fields |-> <<>>]
NoError == Exc("", "")

required_fields ==
    <<"sender_id", "receiver_id", "amount", "transaction_time", "device_id", "ip_address">>

\* _validate_transaction_data: the exception it raises, or NoError
validate_transaction_data(txn) ==
    LET missing_fields == SelectSeq(required_fields, LAMBDA f : ~txn.td[f].has)
    IN  IF ~txn.isdict
        THEN Exc("TypeError", "argument is not a transaction record")
        ELSE IF missing_fields # <<>>
        THEN [type |-> "ValueError", msg |-> "Missing required fields",
              fields |-> missing_fields]
        ELSE IF "amount" \in txn.strs
                \/ (~IsNan(txn.td, "amount") /\ txn.td.amount.v <= 0)
        THEN Exc("ValueError", "Amount must be a positive number")
        ELSE IF "transaction_time" \in txn.strs
        THEN Exc("TypeError", "'<=' not supported between instances of 'int' and 'str'")
        ELSE IF ~(0 <= txn.td.transaction_time.v /\ txn.td.transaction_time.v <= 23)
        THEN Exc("ValueError", "Transaction time must be between 0 and 23")
        ELSE NoError

\* variant: the raw score passed on as it is
clamp_score_none(raw) == raw

\* line 92: max(0.0, min(1.0, float(fraud_score)))
clamp_score(raw) == PyMax(Num(0), PyMin(Num(100), raw))

\* variant: the error response built like _process_unknown's
create_error_response_unknown(e, txn) ==
    [outcome |-> "returned",
     transaction_id |-> Get(txn.td, "transaction_id", "unknown"),
     status |-> "error",
     error |-> e,
     action_response |->
         [status |-> "error", action |-> "UNKNOWN",
          message |-> "Unable to process transaction",
          user_message |-> "Technical error occurred. Please try again later.",
          next_steps |-> <<"retry_later", "contact_support">>,
          extras |-> {}],
     fraud_detection |-> NoDecision]

\* _create_error_response(str(e), transaction_data)
create_error_response(e, txn) ==
    [outcome |-> "returned",
     transaction_id |-> Get(txn.td, "transaction_id", "unknown"),
     status |-> "error",
     error |-> e,
     action_response |->
         [status |-> "error", action |-> "BLOCK",
          message |-> "Unable to process transaction due to technical error",
          user_message |-> "Transaction could not be processed. Please try again later.",
          next_steps |-> <<"retry_later", "contact_support">>,
          extras |-> {}],
     fraud_detection |-> NoDecision]

\* an exception leaves predict_fraud
Propagated(e) ==
    [outcome |-> "raised", transaction_id |-> "", status |-> "", error |-> e,
     action_response |-> NoResponse, fraud_detection |-> NoDecision]

\* lines 111-113: the except clause; transaction_data.get fails on a
\* value that is no dict, and that exception leaves the call
handle_exception(e, txn) ==
    IF txn.isdict
    THEN create_error_response(e, txn)
    ELSE Propagated(Exc("AttributeError", "object has no attribute 'get'"))

\* lines 101-106: the combined result
final_result(txn, decision_result, action_response) ==
    [outcome |-> "returned",
     transaction_id |-> Get(txn.td, "transaction_id", "unknown"),
     status |-> "",
     error |-> NoError,
     action_response |-> action_response,
     fraud_detection |-> decision_result]

----------------------------------------------------------------------------
(* The inputs the calls are made with. *)

\* fraud_score arguments: in range, on both default thresholds, on the
\* updated thresholds, out of range, nan and a str
Scores ==
    {Num(-10), Num(0), Num(20), Num(30), Num(35), Num(40), Num(60), Num(70),
     Num(80), Num(100), Num(110), NaN, Str}

\* the scores the business-rule calls are made with
RuleScores == {Num(20), Num(35), Num(60), Num(75), Num(90)}

\* transaction_data=None is (hasData = FALSE, NoData)
NoData ==
    [amount |-> Absent(0), avg_amount_last_week |-> Absent(0),
     receiver_age_days |-> Absent(365), is_unusual_hour |-> Absent(0),
     device_id |-> Absent("None"), preferred_device |-> Absent("None"),
     geo_distance_from_last_txn |-> Absent(0),
     transaction_frequency_last_24h |-> Absent(0),
     receiver_fraud_reports |-> Absent(0), user_type |-> Absent("regular"),
     transaction_time |-> Absent(12),
     sender_id |-> Absent(""), receiver_id |-> Absent(""),
     ip_address |-> Absent(""), transaction_id |-> Absent("")]

\* transaction_data dicts: every field on both sides of the limit the rules
\* compare it with, or left out
Contexts ==
    [amount : {Absent(0), Some(40), Some(10000), Some(15000)},
     avg_amount_last_week : {Absent(0), Some(8), Some(1000), Some(3000)},
     receiver_age_days : {Absent(365), Some(5), Some(7)},
     is_unusual_hour : {Absent(0), Some(1)},
     device_id : {Some("d1")},
     preferred_device : {Absent("None"), Some("d1")},
     geo_distance_from_last_txn : {Some(100), Some(150)},
     transaction_frequency_last_24h : {Absent(0), Some(11)},
     receiver_fraud_reports : {Some(3), Some(4)},
     user_type : {Absent("regular"), Some("vip")},
     transaction_time : {Absent(12), Some(5), Some(6), Some(23)},
     sender_id : {Absent("")}, receiver_id : {Absent("")},
     ip_address : {Absent("")}, transaction_id : {Absent("")}]

\* transaction_data dicts for the micro-night rule: every hour of the day,
\* amounts on both sides of 50
Hours == 0 .. 23
MicroScores == {Num(35), Num(60), Num(90)}
MicroContexts ==
    [amount : {Absent(0), Some(40), Some(49), Some(50), Some(15000)},
     avg_amount_last_week : {Absent(0), Some(8), Some(1000)},
     receiver_age_days : {Absent(365), Some(5)},
     is_unusual_hour : {Absent(0), Some(1)},
     device_id : {Some("d1")},
     preferred_device : {Absent("None"), Some("d1")},
     geo_distance_from_last_txn : {Some(100), Some(150)},
     transaction_frequency_last_24h : {Absent(0)},
     receiver_fraud_reports : {Some(3), Some(4)},
     user_type : {Absent("regular"), Some("vip")},
     transaction_time : {Absent(12)} \cup {Some(h) : h \in Hours},
     sender_id : {Absent("")}, receiver_id : {Absent("")},
     ip_address : {Absent("")}, transaction_id : {Absent("")}]

Dict(m) == [isdict |-> TRUE, m |-> m]
NotADict == [isdict |-> FALSE, m |-> <<>>]

\* new_thresholds arguments
Payloads ==
    {Dict([allow |-> Num(30), block |-> Num(80)]),
     Dict([allow |-> Num(80), block |-> Num(30)]),
     Dict([allow |-> Num(60)]),
     Dict([block |-> Num(50)]),
     Dict([allow |-> Num(150)]),
     Dict([block |-> Str]),
     Dict([extra |-> Str]),
     NotADict}

\* the scores and updates of the racing make_decision call
RaceScores == {Num(20), Num(32), Num(60), Num(75), Num(110)}
RacePayloads ==
    {Dict([allow |-> Num(30), block |-> Num(80)]),
     Dict([allow |-> Num(40), block |-> Num(70)]),
     Dict([allow |-> Num(80), block |-> Num(30)])}

\* the threshold change the business-rule calls run across
RulePayloads == {Dict([allow |-> Num(30), block |-> Num(80)])}

\* create_sample_transaction()
SampleData ==
    [amount |-> Some(2500), avg_amount_last_week |-> Some(2000),
     receiver_age_days |-> Some(365), is_unusual_hour |-> Some(0),
     device_id |-> Some("d1"), preferred_device |-> Absent("None"),
     geo_distance_from_last_txn |-> Some(5),
     transaction_frequency_last_24h |-> Some(3),
     receiver_fraud_reports |-> Some(0), user_type |-> Absent("regular"),
     transaction_time |-> Some(12),
     sender_id |-> Some("user_123@upi"), receiver_id |-> Some("merchant_456@upi"),
     ip_address |-> Some("192.168.1.100"), transaction_id |-> Some("TXN_1")]

\* the high-risk transaction of main()
HighRiskData ==
    [SampleData EXCEPT !.amount = Some(50000), !.transaction_time = Some(2),
                       !.receiver_age_days = Some(5), !.receiver_fraud_reports = Some(5),
                       !.geo_distance_from_last_txn = Some(200),
                       !.is_unusual_hour = Some(1)]

Txn(td) == [isdict |-> TRUE, strs |-> {}, td |-> td]

\* transaction_data arguments of predict_fraud
Transactions ==
    {Txn(SampleData),
     Txn(HighRiskData),
     Txn([SampleData EXCEPT !.user_type = Some("vip"), !.preferred_device = Some("d1")]),
     Txn([SampleData EXCEPT !.amount = Some(40), !.transaction_time = Some(23),
                            !.transaction_id = Absent("")]),
     Txn([SampleData EXCEPT !.avg_amount_last_week = Absent(0)]),
     Txn([SampleData EXCEPT !.sender_id = Absent(""), !.ip_address = Absent("")]),
     Txn([SampleData EXCEPT !.amount = Some(-100)]),
     Txn([SampleData EXCEPT !.transaction_time = Some(25)]),
     Txn([SampleData EXCEPT !.sender_id = Some("")]),
     [isdict |-> TRUE, strs |-> {"amount"}, td |-> SampleData],
     [isdict |-> TRUE, strs |-> {"transaction_time"}, td |-> SampleData],
     [isdict |-> FALSE, strs |-> {}, td |-> NoData]}

\* what the Scorer returns: in range, out of range, nan, inf and -inf
RawScores == {Num(-20), Num(20), Num(55), Num(90), Num(130), NaN, PosInf, NegInf}

\* the collaborator that raises in a call, if any
Faults == {"none", "preprocess", "score", "decide", "process"}

NumUpdaters == 2
Updaters == 1 .. NumUpdaters

----------------------------------------------------------------------------
(* State *)

NoCall == [fraud_score |-> NaN, hasData |-> FALSE, td |-> NoData]

NoResult ==
    [outcome |-> "none", transaction_id |-> "", status |-> "", error |-> NoError,
     action_response |-> NoResponse, fraud_detection |-> NoDecision]

NoTransaction == [isdict |-> TRUE, strs |-> {}, td |-> NoData]
NoEnv == [fault |-> "none", raw |-> NaN]

\* no batch_predict call has been made
NoBatch == [supplied |-> <<>>, items |-> <<>>, envs |-> <<>>, i |-> 0,
            results |-> <<>>, outcome |-> "none"]

\* no get_threshold_info call has been made
NoInfo == [held |-> FALSE, aliased |-> FALSE, copy |-> FRAUD_THRESHOLDS,
           at |-> FRAUD_THRESHOLDS, writes |-> 0]

\* no engine but the pipeline's has been constructed
\* no engine constructed; module is the module-level FRAUD_THRESHOLDS mapping
\* as the updates made through engines without custom thresholds leave it
\* (history), by the engine whose make_decision was the latest operation
NoEngines == [objs |-> <<>>, module |-> FRAUD_THRESHOLDS, by |-> 0]

NoExtension ==
    /\ batch = NoBatch
    /\ info = NoInfo
    /\ engines = NoEngines
    /\ aresponse = NoResponse

\* no request has been received
NoExchange == [is_json |-> TRUE, code |-> 0, status |-> ""]

\* no predict_fraud call is in progress
PipelineIdle ==
    /\ is_loaded = TRUE
    /\ ppc = "idle"
    /\ ptxn = NoTransaction
    /\ penv = NoEnv
    /\ pscore = NaN
    /\ plog = <<>>
    /\ presult = NoResult
    /\ http = NoExchange
    /\ NoExtension

NoView == [base_allow |-> NaN, base_block |-> NaN, conf_allow |-> NaN, conf_block |-> NaN]

Init ==
    /\ thresholds = FRAUD_THRESHOLDS
    /\ call = NoCall
    /\ decision = NoDecision
    /\ upc = [t \in Updaters |-> "idle"]
    /\ upayload = [t \in Updaters |-> NotADict]
    /\ uresult = [t \in Updaters |-> "none"]
    /\ dpc = "idle"
    /\ dview = NoView
    /\ seen = {}
    /\ PipelineIdle

----------------------------------------------------------------------------
(* One caller at a time: each call runs to its end before the next starts. *)

\* engine.make_decision(fraud_score, transaction_data)
MakeDecision(fraud_score, hasData, td) ==
    /\ call' = [fraud_score |-> fraud_score, hasData |-> hasData, td |-> td]
    /\ decision' = make_decision(thresholds, fraud_score, hasData, td)
    /\ UNCHANGED <<thresholds, updVars, raceVars, pipeVars, extVars>>

\* engine.update_thresholds(new_thresholds), uninterrupted
UpdateThresholds(t, p) ==
    /\ upayload' = [upayload EXCEPT ![t] = p]
    /\ IF validate_thresholds(thresholds, p)
       THEN /\ thresholds' = dict_update(thresholds, p)
            /\ uresult' = [uresult EXCEPT ![t] = "True"]
       ELSE /\ thresholds' = thresholds
            /\ uresult' = [uresult EXCEPT ![t] = "False"]
    /\ UNCHANGED <<decVars, upc, raceVars, pipeVars, extVars>>

\* A call arrives with its arguments; the thresholds may be updated any
\* number of times before it is decided.
InitCall(calls) ==
    /\ thresholds = FRAUD_THRESHOLDS
    /\ call \in calls
    /\ decision = NoDecision
    /\ upc = [t \in Updaters |-> "idle"]
    /\ upayload = [t \in Updaters |-> NotADict]
    /\ uresult = [t \in Updaters |-> "none"]
    /\ dpc = "idle"
    /\ dview = NoView
    /\ seen = {}
    /\ PipelineIdle

DecidePending ==
    /\ decision.status = "none"
    /\ MakeDecision(call.fraud_score, call.hasData, call.td)

UpdateBeforeDecision(payloads) ==
    /\ decision.status = "none"
    /\ \E p \in payloads : UpdateThresholds(1, p)

\* make_decision without transaction data
InitDecide == InitCall([fraud_score : Scores, hasData : {FALSE}, td : {NoData}])
NextDecide == DecidePending \/ UpdateBeforeDecision(Payloads)
SpecDecide == InitDecide /\ [][NextDecide]_vars

\* make_decision with transaction data (and, for comparison, without)
InitRules ==
    InitCall([fraud_score : RuleScores, hasData : {TRUE}, td : Contexts]
             \cup [fraud_score : RuleScores, hasData : {FALSE}, td : {NoData}])
NextRules == DecidePending \/ UpdateBeforeDecision(RulePayloads)
SpecRules == InitRules /\ [][NextRules]_vars

\* make_decision with transaction data, at every hour of the day
InitMicro == InitCall([fraud_score : MicroScores, hasData : {TRUE}, td : MicroContexts])
NextMicro == DecidePending \/ UpdateBeforeDecision(RulePayloads)
SpecMicro == InitMicro /\ [][NextMicro]_vars

\* make_decision(fraud_score) called again and again on one engine, whose
\* thresholds were updated any number of times before the first call
ConfidenceScores == {Num(5 * i) : i \in 0 .. 20} \cup {Num(39), Num(41), Num(110), NaN}
ConfidencePayloads ==
    {Dict([allow |-> Num(30), block |-> Num(80)]),
     Dict([allow |-> Num(40), block |-> Num(70)]),
     Dict([allow |-> Num(60)]),
     Dict([block |-> Num(50)])}
NextConfidence ==
    \/ \E s \in ConfidenceScores : MakeDecision(s, FALSE, NoData)
    \/ UpdateBeforeDecision(ConfidencePayloads)
SpecConfidence == Init /\ [][NextConfidence]_vars

----------------------------------------------------------------------------
(* Concurrent callers (the API serves each request on its own thread and   *)
(* nothing locks the engine).  A thread can be preempted between any two   *)
(* reads or writes of self.thresholds; one dict operation is one step.     *)

Pair(th) == <<th["allow"], th["block"]>>

\* line 217: the call enters and evaluates _validate_thresholds
UpdateValidate(t, p) ==
    /\ upc[t] = "idle"
    /\ upayload' = [upayload EXCEPT ![t] = p]
    /\ uresult' = [uresult EXCEPT ![t] = "none"]
    /\ upc' = [upc EXCEPT ![t] =
                  IF validate_thresholds(thresholds, p) THEN "valid" ELSE "invalid"]
    /\ UNCHANGED <<thresholds, decVars, raceVars, pipeVars, extVars>>

\* lines 218-222: the dict is updated in place and True is returned
UpdateApply(t) ==
    /\ upc[t] = "valid"
    /\ thresholds' = dict_update(thresholds, upayload[t])
    /\ uresult' = [uresult EXCEPT ![t] = "True"]
    /\ upc' = [upc EXCEPT ![t] = "idle"]
    /\ seen' = IF dpc = "idle" THEN seen ELSE seen \cup {Pair(thresholds')}
    /\ UNCHANGED <<decVars, upayload, dpc, dview, pipeVars, extVars>>

\* variant: the dict updated before the validation result is looked at
UpdateRejectAfterWrite(t) ==
    /\ upc[t] = "invalid"
    /\ thresholds' = dict_update(thresholds, upayload[t])
    /\ uresult' = [uresult EXCEPT ![t] = "False"]
    /\ upc' = [upc EXCEPT ![t] = "idle"]
    /\ UNCHANGED <<decVars, upayload, raceVars, pipeVars, extVars>>

\* lines 223-225: the error is logged and False is returned
UpdateReject(t) ==
    /\ upc[t] = "invalid"
    /\ thresholds' = thresholds
    /\ uresult' = [uresult EXCEPT ![t] = "False"]
    /\ upc' = [upc EXCEPT ![t] = "idle"]
    /\ UNCHANGED <<decVars, upayload, raceVars, pipeVars, extVars>>

\* make_decision(fraud_score) on its own thread, without transaction data.
\* lines 38-43: the score is validated
DecideEnter(fraud_score) ==
    /\ dpc = "idle"
    /\ call' = [fraud_score |-> fraud_score, hasData |-> FALSE, td |-> NoData]
    /\ dview' = NoView
    /\ seen' = {Pair(thresholds)}
    /\ LET checked == make_decision(thresholds, fraud_score, FALSE, NoData)
       IN  IF checked.status = "raised"
           THEN decision' = checked /\ dpc' = "done"
           ELSE decision' = NoDecision /\ dpc' = "base_allow"
    /\ UNCHANGED <<thresholds, updVars, pipeVars, extVars>>

\* line 71: _get_base_action reads self.thresholds['allow']
ReadBaseAllow ==
    /\ dpc = "base_allow"
    /\ dview' = [dview EXCEPT !.base_allow = thresholds["allow"]]
    /\ dpc' = IF Lt(call.fraud_score, thresholds["allow"]) THEN "conf_allow" ELSE "base_block"
    /\ UNCHANGED <<thresholds, decVars, updVars, seen, pipeVars, extVars>>

\* line 73: _get_base_action reads self.thresholds['block']
ReadBaseBlock ==
    /\ dpc = "base_block"
    /\ dview' = [dview EXCEPT !.base_block = thresholds["block"]]
    /\ dpc' = "conf_allow"
    /\ UNCHANGED <<thresholds, decVars, updVars, seen, pipeVars, extVars>>

\* line 179: _calculate_confidence reads self.thresholds['allow']
ReadConfAllow ==
    /\ dpc = "conf_allow"
    /\ dview' = [dview EXCEPT !.conf_allow = thresholds["allow"]]
    /\ dpc' = "conf_block"
    /\ UNCHANGED <<thresholds, decVars, updVars, seen, pipeVars, extVars>>

\* line 180: _calculate_confidence reads self.thresholds['block']; the
\* record is complete and make_decision returns it
ReadConfBlock ==
    /\ dpc = "conf_block"
    /\ dview' = [dview EXCEPT !.conf_block = thresholds["block"]]
    /\ decision' = make_decision_reading(
                       [allow |-> dview.base_allow, block |-> dview.base_block],
                       [allow |-> dview.conf_allow, block |-> thresholds["block"]],
                       call.fraud_score, call.hasData, call.td)
    /\ dpc' = "done"
    /\ UNCHANGED <<thresholds, call, updVars, seen, pipeVars, extVars>>

\* the caller takes the record
DecideReturn ==
    /\ dpc = "done"
    /\ dpc' = "idle"
    /\ dview' = NoView
    /\ seen' = {}
    /\ UNCHANGED <<thresholds, decVars, updVars, pipeVars, extVars>>

Next ==
    \/ \E t \in Updaters, p \in Payloads : UpdateValidate(t, p)
    \/ \E t \in Updaters : UpdateApply(t)
    \/ \E t \in Updaters : UpdateReject(t)

Spec == Init /\ [][Next]_vars

\* one make_decision call racing one thread that updates both thresholds
NextRace ==
    \/ \E s \in RaceScores : DecideEnter(s)
    \/ ReadBaseAllow
    \/ ReadBaseBlock
    \/ ReadConfAllow
    \/ ReadConfBlock
    \/ DecideReturn
    \/ \E p \in RacePayloads : UpdateValidate(1, p)
    \/ UpdateApply(1)
    \/ UpdateReject(1)

SpecRace == Init /\ [][NextRace]_vars

----------------------------------------------------------------------------
(* predict_fraud(transaction_data), step by step.  The call arrives with   *)
(* its argument and with what the Preprocessor and the Scorer will do in   *)
(* it; penv.fault names the collaborator that raises, if one does.         *)

InitPipeline ==
    /\ thresholds = FRAUD_THRESHOLDS
    /\ call = NoCall
    /\ decision = NoDecision
    /\ upc = [t \in Updaters |-> "idle"]
    /\ upayload = [t \in Updaters |-> NotADict]
    /\ uresult = [t \in Updaters |-> "none"]
    /\ dpc = "idle"
    /\ dview = NoView
    /\ seen = {}
    /\ is_loaded \in BOOLEAN
    /\ ppc = "called"
    /\ ptxn \in Transactions
    /\ penv \in [fault : Faults, raw : RawScores]
    /\ pscore = NaN
    /\ plog = <<>>
    /\ presult = NoResult
    /\ http = NoExchange
    /\ NoExtension

\* control passes to the except clause with exception e
Except(e) ==
    /\ presult' = handle_exception(e, ptxn)
    /\ ppc' = "done"

\* variant: a validation error is noted and the call goes on
PredictValidateLenient ==
    /\ ppc = "called"
    /\ IF ~is_loaded
       THEN /\ presult' = Propagated(Exc("RuntimeError",
                              "Fraud detection pipeline not properly loaded"))
            /\ ppc' = "done"
            /\ plog' = plog
       ELSE /\ plog' = Append(plog, "validate")
            /\ ppc' = "validated"
            /\ presult' = presult
    /\ UNCHANGED <<thresholds, decVars, updVars, raceVars, is_loaded, ptxn, penv, pscore, http,
                   extVars>>

\* lines 75-80: the loaded check, then step 1, validation
PredictValidate ==
    /\ ppc = "called"
    /\ IF ~is_loaded
       THEN /\ presult' = Propagated(Exc("RuntimeError",
                              "Fraud detection pipeline not properly loaded"))
            /\ ppc' = "done"
            /\ plog' = plog
       ELSE /\ plog' = Append(plog, "validate")
            /\ LET e == validate_transaction_data(ptxn)
               IN  IF e # NoError
                   THEN Except(e)
                   ELSE ppc' = "validated" /\ presult' = presult
    /\ UNCHANGED <<thresholds, decVars, updVars, raceVars, is_loaded, ptxn, penv, pscore, http,
                   extVars>>

\* line 83: step 2, the Preprocessor
PredictPreprocess ==
    /\ ppc = "validated"
    /\ plog' = Append(plog, "Preprocessor")
    /\ IF penv.fault = "preprocess"
       THEN Except(Exc("Exception", "preprocessing failed"))
       ELSE ppc' = "preprocessed" /\ presult' = presult
    /\ UNCHANGED <<thresholds, decVars, updVars, raceVars, is_loaded, ptxn, penv, pscore, http,
                   extVars>>

\* lines 86-92: step 3, the Scorer, and the clamp
PredictScore ==
    /\ ppc = "preprocessed"
    /\ plog' = Append(plog, "Scorer")
    /\ IF penv.fault = "score"
       THEN Except(Exc("Exception", "scoring failed")) /\ pscore' = pscore
       ELSE ppc' = "scored" /\ presult' = presult /\ pscore' = clamp_score(penv.raw)
    /\ UNCHANGED <<thresholds, decVars, updVars, raceVars, is_loaded, ptxn, penv, http,
                   extVars>>

\* line 95: step 4, make_decision
PredictDecide ==
    /\ ppc = "scored"
    /\ plog' = Append(plog, "make_decision")
    /\ call' = [fraud_score |-> pscore, hasData |-> TRUE, td |-> ptxn.td]
    /\ LET d == make_decision(thresholds, pscore, TRUE, ptxn.td)
       IN  IF penv.fault = "decide"
           THEN Except(Exc("Exception", "decision failed")) /\ decision' = NoDecision
           ELSE IF d.status = "raised"
           THEN Except(Exc("ValueError", d.error)) /\ decision' = d
           ELSE ppc' = "decided" /\ presult' = presult /\ decision' = d
    /\ UNCHANGED <<thresholds, updVars, raceVars, is_loaded, ptxn, penv, pscore, http,
                   extVars>>

\* lines 98-109: step 5, process_action, and step 6, the combined result
PredictProcess ==
    /\ ppc = "decided"
    /\ plog' = Append(plog, "process_action")
    /\ IF penv.fault = "process"
       THEN Except(Exc("Exception", "action processing failed"))
       ELSE /\ presult' = final_result(ptxn, decision, process_action(decision))
            /\ ppc' = "done"
    /\ UNCHANGED <<thresholds, decVars, updVars, raceVars, is_loaded, ptxn, penv, pscore, http,
                   extVars>>

NextPipeline ==
    \/ PredictValidate
    \/ PredictPreprocess
    \/ PredictScore
    \/ PredictDecide
    \/ PredictProcess

SpecPipeline == InitPipeline /\ [][NextPipeline]_vars

----------------------------------------------------------------------------
(* api/fraud_api.py: POST /api/detect-fraud.  The request arrives with its  *)
(* body (ptxn) and with whether it is JSON; the module's fraud_pipeline is  *)
(* the pipeline above.                                                      *)

\* request bodies: the transactions, and the empty JSON object
Bodies == Transactions \cup {NoTransaction}

\* jsonify(...), status code
Response(x, code, status) == [x EXCEPT !.code = code, !.status = status]

InitApi ==
    /\ thresholds = FRAUD_THRESHOLDS
    /\ call = NoCall
    /\ decision = NoDecision
    /\ upc = [t \in Updaters |-> "idle"]
    /\ upayload = [t \in Updaters |-> NotADict]
    /\ uresult = [t \in Updaters |-> "none"]
    /\ dpc = "idle"
    /\ dview = NoView
    /\ seen = {}
    /\ is_loaded \in BOOLEAN
    /\ ppc = "request"
    /\ ptxn \in Bodies
    /\ penv \in [fault : Faults, raw : RawScores]
    /\ pscore = NaN
    /\ plog = <<>>
    /\ presult = NoResult
    /\ http \in [is_json : BOOLEAN, code : {0}, status : {""}]
    /\ NoExtension

\* lines 54-82: the checks before the call of predict_fraud.  A body that
\* is no dict and not empty fails at the timestamp assignment with a
\* TypeError, which the last handler turns into a 500.
DetectFraudEnter ==
    /\ ppc = "request"
    /\ IF ~is_loaded
       THEN http' = Response(http, 503, "error") /\ ppc' = "responded"
       ELSE IF ~http.is_json
       THEN http' = Response(http, 400, "error") /\ ppc' = "responded"
       ELSE IF ptxn = NoTransaction
       THEN http' = Response(http, 400, "error") /\ ppc' = "responded"
       ELSE IF ~ptxn.isdict
       THEN http' = Response(http, 500, "error") /\ ppc' = "responded"
       ELSE http' = http /\ ppc' = "called"
    /\ UNCHANGED <<thresholds, decVars, updVars, raceVars, is_loaded, ptxn, penv,
                   pscore, plog, presult, extVars>>

\* lines 85-105: predict_fraud has returned or raised; the result is sent
\* with 200, a ValueError with 400, any other exception with 500
DetectFraudRespond ==
    /\ ppc = "done"
    /\ IF presult.outcome = "returned"
       THEN http' = Response(http, 200, presult.status)
       ELSE IF presult.error.type = "ValueError"
       THEN http' = Response(http, 400, "validation_error")
       ELSE http' = Response(http, 500, "error")
    /\ ppc' = "responded"
    /\ UNCHANGED <<thresholds, decVars, updVars, raceVars, is_loaded, ptxn, penv,
                   pscore, plog, presult, extVars>>

NextApi ==
    \/ DetectFraudEnter
    \/ PredictValidate
    \/ PredictPreprocess
    \/ PredictScore
    \/ PredictDecide
    \/ PredictProcess
    \/ DetectFraudRespond

SpecApi == InitApi /\ [][NextApi]_vars

----------------------------------------------------------------------------
(* FraudActionProcessor.process_action called directly, again and again,    *)
(* with decision records of any action.                                     *)

DecisionRecords ==
    {[NoDecision EXCEPT !.status = "returned", !.action = a, !.fraud_score = s,
                        !.risk_level = r] :
        a \in {"ALLOW", "VERIFY", "BLOCK", "REVIEW", "allow", ""},
        s \in {Num(0), Num(20), Num(40), Num(55), Num(70), Num(90), Num(100)},
        r \in {"LOW", "MEDIUM", "HIGH"}}

\* processor.process_action(decision_result)
ProcessAction(decision_result) ==
    /\ decision' = decision_result
    /\ aresponse' = process_action(decision_result)
    /\ UNCHANGED <<thresholds, call, updVars, raceVars, pipeVars, batch, info, engines>>

NextProcess == \E d \in DecisionRecords : ProcessAction(d)

SpecProcess == Init /\ [][NextProcess]_vars

----------------------------------------------------------------------------
(* get_threshold_info and what its caller does with the value.  The value   *)
(* is a dict whose 'thresholds' entry is either the engine's own dict       *)
(* (aliased) or a copy of it.                                               *)

\* lines 210-213: {'thresholds': self.thresholds, ...}: the dict itself
get_threshold_info(th) == [aliased |-> TRUE, copy |-> th]

\* what the caller reads in the returned value now
InfoShows == IF info.aliased THEN thresholds ELSE info.copy

MaxWrites == 2

InfoWrites == {[key |-> "allow", v |-> Num(10)], [key |-> "block", v |-> Num(90)],
               [key |-> "allow", v |-> Num(90)]}
InfoScores == {Num(20), Num(35), Num(60), Num(85)}

\* info = engine.get_threshold_info()
GetThresholdInfo ==
    /\ ~info.held
    /\ info' = [held |-> TRUE,
                aliased |-> get_threshold_info(thresholds).aliased,
                copy |-> get_threshold_info(thresholds).copy,
                at |-> thresholds, writes |-> 0]
    /\ UNCHANGED <<thresholds, decVars, updVars, raceVars, pipeVars, batch, engines,
                   aresponse>>

\* the caller's code: info['thresholds'][key] = v
CallerWritesInfo(w) ==
    /\ info.held
    /\ info.writes < MaxWrites
    /\ IF info.aliased
       THEN /\ thresholds' = [thresholds EXCEPT ![w.key] = w.v]
            /\ info' = [info EXCEPT !.writes = @ + 1]
       ELSE /\ thresholds' = thresholds
            /\ info' = [info EXCEPT !.writes = @ + 1, !.copy[w.key] = w.v]
    /\ UNCHANGED <<decVars, updVars, raceVars, pipeVars, batch, engines, aresponse>>

NextInfo ==
    \/ GetThresholdInfo
    \/ \E w \in InfoWrites : CallerWritesInfo(w)
    \/ \E p \in RacePayloads : UpdateThresholds(1, p)
    \/ \E s \in InfoScores : MakeDecision(s, FALSE, NoData)

SpecInfo == Init /\ [][NextInfo]_vars

----------------------------------------------------------------------------
(* predict_fraud for transactions with and without the optional             *)
(* avg_amount_last_week.                                                    *)

NoAverage(td) == [td EXCEPT !.avg_amount_last_week = Absent(0)]

OptionalTransactions ==
    {Txn(SampleData),
     Txn(NoAverage(SampleData)),
     Txn(NoAverage([SampleData EXCEPT !.amount = Some(1)])),
     Txn(NoAverage([SampleData EXCEPT !.amount = Some(40), !.transaction_time = Some(23)])),
     Txn(NoAverage(HighRiskData)),
     Txn(NoAverage([HighRiskData EXCEPT !.user_type = Some("vip")])),
     Txn(NoAverage([SampleData EXCEPT !.amount = Some(0)])),
     Txn(NoAverage([SampleData EXCEPT !.amount = NanValue])),
     Txn([SampleData EXCEPT !.amount = NanValue])}

InitOptional ==
    /\ thresholds = FRAUD_THRESHOLDS
    /\ call = NoCall
    /\ decision = NoDecision
    /\ upc = [t \in Updaters |-> "idle"]
    /\ upayload = [t \in Updaters |-> NotADict]
    /\ uresult = [t \in Updaters |-> "none"]
    /\ dpc = "idle"
    /\ dview = NoView
    /\ seen = {}
    /\ is_loaded = TRUE
    /\ ppc = "called"
    /\ ptxn \in OptionalTransactions
    /\ penv \in [fault : Faults, raw : RawScores]
    /\ pscore = NaN
    /\ plog = <<>>
    /\ presult = NoResult
    /\ http = NoExchange
    /\ NoExtension

SpecOptional == InitOptional /\ [][NextPipeline]_vars

----------------------------------------------------------------------------
(* Several engines.  thresholds is the module-level FRAUD_THRESHOLDS dict;  *)
(* an engine's self.thresholds is that dict (shared) or a dict of its own.  *)

\* the thresholds argument of the constructor: None, {} or a mapping
NoneArg == [kind |-> "None", m |-> [allow |-> Num(0), block |-> Num(0)]]
EmptyArg == [kind |-> "empty", m |-> [allow |-> Num(0), block |-> Num(0)]]
CustomArg == [kind |-> "custom", m |-> [allow |-> Num(50), block |-> Num(90)]]
EngineArgs == {NoneArg, EmptyArg, CustomArg}

\* bool(thresholds): None and {} are falsy
Truthy(arg) == arg.kind = "custom"

\* variant: the constructor taking a copy of the mapping
engine_init_copy(arg) ==
    IF Truthy(arg) THEN [shared |-> FALSE, own |-> arg.m]
    ELSE [shared |-> FALSE, own |-> thresholds]

\* line 19: self.thresholds = thresholds or FRAUD_THRESHOLDS
engine_init(arg) ==
    IF Truthy(arg) THEN [shared |-> FALSE, own |-> arg.m]
    ELSE [shared |-> TRUE, own |-> arg.m]

\* self.thresholds of engine e
EngineThresholds(e) ==
    IF engines.objs[e].shared THEN thresholds ELSE engines.objs[e].own

MaxEngines == 3
EngineScores == {Num(35), Num(75)}

\* FraudDecisionEngine(thresholds)
Construct(arg) ==
    /\ Len(engines.objs) < MaxEngines
    /\ engines' =
           [engines EXCEPT
               !.objs = Append(@, [shared |-> engine_init(arg).shared,
                                   own |-> engine_init(arg).own,
                                   kind |-> arg.kind, mine |-> arg.m,
                                   late |-> engines.module # FRAUD_THRESHOLDS]),
               !.by = 0]
    /\ UNCHANGED <<thresholds, decVars, updVars, raceVars, pipeVars, batch, info,
                   aresponse>>

\* engines[e].update_thresholds(p)
EngineUpdate(e, p) ==
    LET th == EngineThresholds(e)
        ok == validate_thresholds(th, p)
        o == engines.objs[e]
    IN  /\ thresholds' = IF ok /\ o.shared THEN dict_update(th, p) ELSE thresholds
        /\ engines' =
               [engines EXCEPT
                   !.objs[e].own = IF ok /\ ~o.shared THEN dict_update(th, p) ELSE @,
                   !.objs[e].mine =
                       IF ok /\ o.kind = "custom" THEN dict_update(@, p) ELSE @,
                   !.module = IF ok /\ o.kind # "custom" THEN dict_update(@, p) ELSE @,
                   !.by = 0]
        /\ UNCHANGED <<decVars, updVars, raceVars, pipeVars, batch, info, aresponse>>

\* engines[e].make_decision(fraud_score)
EngineDecide(e, fraud_score) ==
    /\ call' = [fraud_score |-> fraud_score, hasData |-> FALSE, td |-> NoData]
    /\ decision' = make_decision(EngineThresholds(e), fraud_score, FALSE, NoData)
    /\ engines' = [engines EXCEPT !.by = e]
    /\ UNCHANGED <<thresholds, updVars, raceVars, pipeVars, batch, info, aresponse>>

NextEngines ==
    \/ \E arg \in EngineArgs : Construct(arg)
    \/ \E e \in 1 .. Len(engines.objs), p \in RacePayloads : EngineUpdate(e, p)
    \/ \E e \in 1 .. Len(engines.objs), s \in EngineScores : EngineDecide(e, s)

SpecEngines == Init /\ [][NextEngines]_vars

----------------------------------------------------------------------------
(* batch_predict(transactions_list).  The caller's list holds references    *)
(* to the caller's records: batch.items is what those records hold now,     *)
(* batch.supplied what they held when the list was passed in.  envs[k] is   *)
(* what the collaborators do in the predict_fraud call for item k.          *)

\* predict_fraud as one call: what it returns, or that it raises
predict_fraud(loaded, th, txn, env) ==
    IF ~loaded
    THEN Propagated(Exc("RuntimeError", "Fraud detection pipeline not properly loaded"))
    ELSE IF validate_transaction_data(txn) # NoError
    THEN handle_exception(validate_transaction_data(txn), txn)
    ELSE IF env.fault = "preprocess"
    THEN handle_exception(Exc("Exception", "preprocessing failed"), txn)
    ELSE IF env.fault = "score"
    THEN handle_exception(Exc("Exception", "scoring failed"), txn)
    ELSE LET d == make_decision(th, clamp_score(env.raw), TRUE, txn.td)
         IN  IF env.fault = "decide"
             THEN handle_exception(Exc("Exception", "decision failed"), txn)
             ELSE IF d.status = "raised"
             THEN handle_exception(Exc("ValueError", d.error), txn)
             ELSE IF env.fault = "process"
             THEN handle_exception(Exc("Exception", "action processing failed"), txn)
             ELSE final_result(txn, d, process_action(d))

\* str(n % 10)
Digit(n) ==
    CASE n % 10 = 0 -> "0" [] n % 10 = 1 -> "1" [] n % 10 = 2 -> "2"
      [] n % 10 = 3 -> "3" [] n % 10 = 4 -> "4" [] n % 10 = 5 -> "5"
      [] n % 10 = 6 -> "6" [] n % 10 = 7 -> "7" [] n % 10 = 8 -> "8"
      [] OTHER -> "9"

\* line 183: f"BATCH_{i+1:04d}", for positions below 10000
BatchId(position) ==
    "BATCH_" \o Digit(position \div 1000) \o Digit(position \div 100)
             \o Digit(position \div 10) \o Digit(position)

\* lines 182-183: the identifier is written into the caller's record
with_transaction_id(item, position) ==
    IF item.td.transaction_id.has
    THEN item
    ELSE [item EXCEPT !.td.transaction_id = Some(BatchId(position))]

\* the entries a caller puts in the list: complete records with and
\* without an identifier, records that fail validation, and an entry that
\* is no record
BatchItems ==
    {Txn(SampleData),
     Txn([SampleData EXCEPT !.transaction_id = Absent("")]),
     Txn([SampleData EXCEPT !.sender_id = Absent(""), !.transaction_id = Absent("")]),
     Txn([SampleData EXCEPT !.amount = Some(-100), !.transaction_id = Some("TXN_2")]),
     [isdict |-> FALSE, strs |-> {}, td |-> NoData]}

BatchEnvs ==
    {[fault |-> "none", raw |-> Num(20)],
     [fault |-> "none", raw |-> Num(90)],
     [fault |-> "score", raw |-> Num(20)]}

MaxBatch == 3

RECURSIVE Lists(_, _)
Lists(S, n) ==
    IF n = 0 THEN {<<>>}
    ELSE Lists(S, n - 1) \cup {Append(l, x) : l \in {m \in Lists(S, n - 1) : Len(m) = n - 1}, x \in S}

InitBatch ==
    /\ thresholds = FRAUD_THRESHOLDS
    /\ call = NoCall
    /\ decision = NoDecision
    /\ upc = [t \in Updaters |-> "idle"]
    /\ upayload = [t \in Updaters |-> NotADict]
    /\ uresult = [t \in Updaters |-> "none"]
    /\ dpc = "idle"
    /\ dview = NoView
    /\ seen = {}
    /\ is_loaded \in BOOLEAN
    /\ ppc = "idle"
    /\ ptxn = NoTransaction
    /\ penv = NoEnv
    /\ pscore = NaN
    /\ plog = <<>>
    /\ presult = NoResult
    /\ http = NoExchange
    /\ \E l \in Lists(BatchItems, MaxBatch) :
           batch = [supplied |-> l, items |-> l, envs |-> <<>>, i |-> 0,
                    results |-> <<>>, outcome |-> "running"]
    /\ info = NoInfo
    /\ engines = NoEngines
    /\ aresponse = NoResponse

\* lines 179-190: one pass of the loop.  For an entry that is no dict the
\* membership test or the assignment raises; the except clause then calls
\* _create_error_response, whose transaction_data.get raises
\* AttributeError, and that exception leaves batch_predict.
BatchItem(env) ==
    /\ batch.outcome = "running"
    /\ batch.i < Len(batch.items)
    /\ LET position == batch.i + 1
           transaction == batch.items[position]
           identified == with_transaction_id(transaction, position)
           result == predict_fraud(is_loaded, thresholds, identified, env)
       IN  IF ~transaction.isdict
           THEN batch' = [batch EXCEPT !.i = position,
                                       !.envs = Append(@, env),
                                       !.outcome = "raised"]
           ELSE batch' = [batch EXCEPT
                    !.i = position,
                    !.envs = Append(@, env),
                    !.items[position] = identified,
                    !.results = Append(@,
                        IF result.outcome = "raised"
                        THEN create_error_response(result.error, identified)
                        ELSE result)]
    /\ UNCHANGED <<thresholds, decVars, updVars, raceVars, pipeVars, info, engines, aresponse>>

\* line 192: return results
BatchReturn ==
    /\ batch.outcome = "running"
    /\ batch.i = Len(batch.items)
    /\ batch' = [batch EXCEPT !.outcome = "returned"]
    /\ UNCHANGED <<thresholds, decVars, updVars, raceVars, pipeVars, info, engines, aresponse>>

NextBatch ==
    \/ \E env \in BatchEnvs : BatchItem(env)
    \/ BatchReturn

SpecBatch == InitBatch /\ [][NextBatch]_vars

----------------------------------------------------------------------------
(* Properties of make_decision *)

Decided == decision.status = "returned"
CallScore == call.fraud_score
InUnitRange(x) == x.k = "num" /\ 0 <= x.v /\ x.v <= 100
AllowNow == thresholds["allow"].v
BlockNow == thresholds["block"].v
CallData == call.td

\* C2: without transaction data, for every score in [0,1] and the thresholds
\* the engine holds, the action is ALLOW exactly when score < allow, VERIFY
\* exactly when allow <= score < block, and BLOCK exactly when score >= block.
C2_BaseActionByThresholds ==
    (Decided /\ ~call.hasData /\ InUnitRange(CallScore)) =>
        /\ decision.action = "ALLOW" <=> CallScore.v < AllowNow
        /\ decision.action = "VERIFY" <=> (AllowNow <= CallScore.v /\ CallScore.v < BlockNow)
        /\ decision.action = "BLOCK" <=> CallScore.v >= BlockNow

\* a score equal to the allow threshold was decided VERIFY, under an updated pair
C2_Witness ==
    /\ Decided /\ ~call.hasData
    /\ AllowNow = 30 /\ BlockNow = 80 /\ CallScore = Num(30)
    /\ decision.action = "VERIFY"

\* C3: under the default thresholds (0.4, 0.7) every score in [0,1] falls in
\* one risk band, which agrees with the base action: [0,0.4) LOW and ALLOW,
\* [0.4,0.7) MEDIUM and VERIFY, [0.7,1.0] HIGH and BLOCK (1.0 by the fallback).
C3_DefaultBands ==
    (Decided /\ ~call.hasData /\ InUnitRange(CallScore) /\ AllowNow = 40 /\ BlockNow = 70) =>
        /\ CallScore.v < 40 =>
               decision.risk_level = "LOW" /\ decision.action = "ALLOW"
        /\ (40 <= CallScore.v /\ CallScore.v < 70) =>
               decision.risk_level = "MEDIUM" /\ decision.action = "VERIFY"
        /\ 70 <= CallScore.v =>
               decision.risk_level = "HIGH" /\ decision.action = "BLOCK"

\* score 1.0 was decided under the default thresholds
C3_Witness ==
    /\ Decided /\ AllowNow = 40 /\ BlockNow = 70 /\ CallScore = Num(100)
    /\ decision.risk_level = "HIGH"

\* C27: update_thresholds never changes the risk bands: whatever updates came
\* before the decision, the risk level of a score in [0,1] is LOW below 0.4,
\* MEDIUM from 0.4 and below 0.7, HIGH from 0.7; so after a successful update
\* to allow 0.3, block 0.8 the score 0.35 is LOW with action VERIFY.
C27_RiskBandsFixed ==
    (Decided /\ InUnitRange(CallScore)) =>
        /\ decision.risk_level =
               (IF CallScore.v < 40 THEN "LOW"
                ELSE IF CallScore.v < 70 THEN "MEDIUM" ELSE "HIGH")
        /\ (~call.hasData /\ AllowNow = 30 /\ BlockNow = 80 /\ CallScore = Num(35)) =>
               decision.risk_level = "LOW" /\ decision.action = "VERIFY"

\* score 0.35 was decided after the update to allow 0.3, block 0.8
C27_Witness ==
    /\ Decided /\ ~call.hasData
    /\ uresult[1] = "True" /\ AllowNow = 30 /\ BlockNow = 80
    /\ CallScore = Num(35)
    /\ decision.risk_level = "LOW" /\ decision.action = "VERIFY"

\* C4: make_decision fails, returning no record, for every score that is not
\* numeric or lies outside [0,1] (nan included), and succeeds for every
\* numeric score in [0,1].
C4_InvalidScoreRejected ==
    decision.status # "none" => (Decided <=> InUnitRange(CallScore))

----------------------------------------------------------------------------
(* Properties of the business rules *)

Severity(action) ==
    CASE action = "ALLOW" -> 0
      [] action = "VERIFY" -> 1
      [] action = "BLOCK" -> 2
      [] OTHER -> 3

\* the base action, from the thresholds the engine holds
BaseOfCall ==
    IF CallScore.v < AllowNow THEN "ALLOW" ELSE IF CallScore.v < BlockNow THEN "VERIFY" ELSE "BLOCK"

Mentions(reason) == \E i \in 1 .. Len(decision.reasoning) : decision.reasoning[i] = reason

IsVip == CallData.user_type.has /\ CallData.user_type.v = "vip"

\* how many of the five risk indicators the transaction data shows
IndicatorCount ==
    Cardinality({i \in 1 .. 5 :
        \/ i = 1 /\ CallData.is_unusual_hour.has /\ CallData.is_unusual_hour.v = 1
        \/ i = 2 /\ CallData.device_id # CallData.preferred_device
                 /\ (CallData.device_id.has \/ CallData.preferred_device.has)
        \/ i = 3 /\ CallData.geo_distance_from_last_txn.has
                 /\ CallData.geo_distance_from_last_txn.v > 100
        \/ i = 4 /\ CallData.transaction_frequency_last_24h.has
                 /\ CallData.transaction_frequency_last_24h.v > 10
        \/ i = 5 /\ CallData.receiver_fraud_reports.has
                 /\ CallData.receiver_fraud_reports.v > 3})

\* C9: only the VIP rule reduces severity.  For a user who is not a VIP the
\* final action is at least as severe as the base action; for every context
\* a final ALLOW means the base action was ALLOW; and a VIP downgrade ends
\* one level below BLOCK, at VERIFY.
C9_OnlyVipReduces ==
    (Decided /\ call.hasData) =>
        /\ ~IsVip => Severity(decision.action) >= Severity(BaseOfCall)
        /\ decision.action = "ALLOW" => BaseOfCall = "ALLOW"
        /\ Severity(decision.action) < Severity(BaseOfCall) =>
               /\ IsVip /\ BaseOfCall = "BLOCK" /\ decision.action = "VERIFY"
               /\ Mentions("VIP user - downgraded to verification")

\* a VIP's BLOCK base action came out as VERIFY
C9_Witness ==
    /\ Decided /\ call.hasData /\ IsVip
    /\ BaseOfCall = "BLOCK" /\ decision.action = "VERIFY"
    /\ Mentions("VIP user - downgraded to verification")

HighAmount ==
    /\ CallData.amount.has /\ CallData.avg_amount_last_week.has
    /\ CallData.amount.v > 5 * CallData.avg_amount_last_week.v

\* C10: for a score below the allow threshold and transaction data with
\* amount > 5 x avg_amount_last_week the final action is not ALLOW, it is
\* VERIFY when fewer than four risk indicators are present, and the reasoning
\* holds the high-amount reason.
C10_HighAmountEscalates ==
    (Decided /\ call.hasData /\ CallScore.v < AllowNow /\ HighAmount) =>
        /\ decision.action # "ALLOW"
        /\ IndicatorCount < 4 => decision.action = "VERIFY"
        /\ Mentions("High amount transaction (>5x average)")

\* the spec's case: amount 10000 against an average of 1000, score under allow
C10_Witness ==
    /\ Decided /\ call.hasData /\ CallScore.v < AllowNow
    /\ CallData.amount = Some(10000) /\ CallData.avg_amount_last_week = Some(1000)
    /\ IndicatorCount < 4
    /\ decision.action = "VERIFY"
    /\ Mentions("High amount transaction (>5x average)")

\* the same with four indicators present: the tally takes it on to BLOCK
C10_WitnessBlock ==
    /\ Decided /\ call.hasData /\ CallScore.v < AllowNow /\ HighAmount
    /\ IndicatorCount >= 4 /\ decision.action = "BLOCK"

----------------------------------------------------------------------------
(* Properties of the single rules *)

\* what the rules read from the transaction data, with dict.get's defaults
AmountOf == IF CallData.amount.has THEN CallData.amount.v ELSE 0
AvgOf == IF CallData.avg_amount_last_week.has THEN CallData.avg_amount_last_week.v ELSE 0
ReceiverAgeOf == IF CallData.receiver_age_days.has THEN CallData.receiver_age_days.v ELSE 365
HourOf == IF CallData.transaction_time.has THEN CallData.transaction_time.v ELSE 12

NewReceiver == ReceiverAgeOf < 7 /\ AmountOf > 10000

MentionsTally ==
    \/ Mentions("Multiple risk indicators (3)")
    \/ Mentions("Multiple risk indicators (4)")
    \/ Mentions("Multiple risk indicators (5)")
    \/ Mentions("Too many risk indicators (4)")
    \/ Mentions("Too many risk indicators (5)")

\* C11: for a score below the allow threshold and transaction data with
\* receiver_age_days < 7 and amount > 10000 the final action is VERIFY (when
\* fewer than four risk indicators are present) and the reasoning holds the
\* new-receiver reason, also when amount exceeds 5 x avg_amount_last_week.
C11_NewReceiverEscalates ==
    (Decided /\ call.hasData /\ CallScore.v < AllowNow /\ NewReceiver) =>
        /\ IndicatorCount < 4 => decision.action = "VERIFY"
        /\ Mentions("New receiver (<7 days) with high amount")

\* C12: for a score whose base action is VERIFY and transaction data showing
\* at least four of the five risk indicators, the final action is BLOCK when
\* the user is not a VIP and VERIFY when the user is a VIP; the tally's reason
\* is recorded in both cases and the VIP reason in the second.
C12_FourIndicatorsBlock ==
    (Decided /\ call.hasData /\ BaseOfCall = "VERIFY" /\ IndicatorCount >= 4) =>
        /\ IndicatorCount = 4 => Mentions("Too many risk indicators (4)")
        /\ IndicatorCount = 5 => Mentions("Too many risk indicators (5)")
        /\ ~IsVip => decision.action = "BLOCK"
        /\ IsVip => /\ decision.action = "VERIFY"
                    /\ Mentions("VIP user - downgraded to verification")

\* a VIP's VERIFY base action with four indicators: BLOCK by the tally, then
\* VERIFY by the VIP rule
C12_Witness ==
    /\ Decided /\ call.hasData /\ BaseOfCall = "VERIFY" /\ IndicatorCount = 4
    /\ IsVip /\ decision.action = "VERIFY"
    /\ Mentions("Too many risk indicators (4)")
    /\ Mentions("VIP user - downgraded to verification")

\* the same for a user who is no VIP: BLOCK
C12_WitnessBlock ==
    /\ Decided /\ call.hasData /\ BaseOfCall = "VERIFY" /\ IndicatorCount = 5
    /\ ~IsVip /\ decision.action = "BLOCK"

\* C13 as stated: for a score below the allow threshold and transaction data
\* showing at least three risk indicators the final action is VERIFY or BLOCK
\* and the reasoning holds a risk-indicator-count entry, whichever earlier
\* rule fired.
C13_TallyEntryAlways ==
    (Decided /\ call.hasData /\ CallScore.v < AllowNow /\ IndicatorCount >= 3) =>
        /\ decision.action \in {"VERIFY", "BLOCK"}
        /\ MentionsTally

\* rule 1 or rule 2 has moved an ALLOW to VERIFY before the tally
EarlierRuleFired == AmountOf > 5 * AvgOf \/ NewReceiver

\* C13 as amended: for a score below the allow threshold and transaction data
\* showing at least three risk indicators the final action is VERIFY or
\* BLOCK; the reasoning holds a risk-indicator-count entry exactly when
\* neither the high-amount nor the new-receiver rule fired before the tally
\* or at least four indicators are present.
C13_TallyEntry ==
    (Decided /\ call.hasData /\ CallScore.v < AllowNow /\ IndicatorCount >= 3) =>
        /\ decision.action \in {"VERIFY", "BLOCK"}
        /\ MentionsTally <=> (~EarlierRuleFired \/ IndicatorCount >= 4)

\* three indicators and no earlier rule: VERIFY with the tally's entry
C13_Witness ==
    /\ Decided /\ call.hasData /\ CallScore.v < AllowNow /\ IndicatorCount = 3
    /\ ~EarlierRuleFired
    /\ decision.action = "VERIFY" /\ Mentions("Multiple risk indicators (3)")

NightHours == {0, 1, 2, 3, 4, 5, 23}

\* the action is still ALLOW when rule 5 is reached: the base action is ALLOW
\* and none of rules 1 to 3 has escalated it
AllowBeforeMicro == BaseOfCall = "ALLOW" /\ ~EarlierRuleFired /\ IndicatorCount < 3

MentionsMicro == Mentions("Micro transaction during night hours")

\* C14: for every hour in 0..23 the micro-night rule fires (its reason is
\* recorded and the action becomes VERIFY) exactly when amount < 50, the hour
\* is one of 0,1,2,3,4,5,23 and the action is still ALLOW after rules 1 to 4;
\* otherwise an ALLOW stays ALLOW, and an action that is VERIFY or BLOCK
\* when the rule is reached is never changed by it.
C14_MicroNight ==
    (Decided /\ call.hasData /\ HourOf \in Hours) =>
        /\ MentionsMicro <=> (AmountOf < 50 /\ HourOf \in NightHours /\ AllowBeforeMicro)
        /\ MentionsMicro => decision.action = "VERIFY"
        /\ (AllowBeforeMicro /\ ~MentionsMicro) => decision.action = "ALLOW"
        /\ ~AllowBeforeMicro => decision.action # "ALLOW"
        /\ (BaseOfCall = "BLOCK" /\ ~IsVip) => decision.action = "BLOCK"

\* amount 49 at hour 5: escalated to VERIFY by rule 5
C14_Witness ==
    /\ Decided /\ call.hasData /\ AllowBeforeMicro
    /\ AmountOf = 49 /\ HourOf = 5
    /\ decision.action = "VERIFY" /\ MentionsMicro

\* amount 49 at hour 22: left at ALLOW
C14_WitnessDay ==
    /\ Decided /\ call.hasData /\ AllowBeforeMicro
    /\ AmountOf = 49 /\ HourOf = 22
    /\ decision.action = "ALLOW" /\ ~MentionsMicro

\* where a reasoning entry belongs in the order of _apply_business_rules
Rank(entry) ==
    CASE entry = "Fraud score" -> 0
      [] entry = "High amount transaction (>5x average)" -> 1
      [] entry = "New receiver (<7 days) with high amount" -> 2
      [] entry = "Unusual transaction hour" -> 3
      [] entry = "New/different device" -> 4
      [] entry = "Distant location" -> 5
      [] entry = "High transaction frequency" -> 6
      [] entry = "High-risk receiver" -> 7
      [] entry \in {"Multiple risk indicators (3)", "Multiple risk indicators (4)",
                    "Multiple risk indicators (5)", "Too many risk indicators (4)",
                    "Too many risk indicators (5)"} -> 8
      [] entry = "VIP user - downgraded to verification" -> 9
      [] entry = "Micro transaction during night hours" -> 10
      [] OTHER -> 11

MentionsMultiple ==
    \/ Mentions("Multiple risk indicators (3)")
    \/ Mentions("Multiple risk indicators (4)")
    \/ Mentions("Multiple risk indicators (5)")

MentionsTooMany ==
    \/ Mentions("Too many risk indicators (4)")
    \/ Mentions("Too many risk indicators (5)")

\* C29: the indicator tally escalates by at most one level per decision.
\* For a base action of ALLOW that neither the high-amount nor the
\* new-receiver rule has moved, four or five indicators give VERIFY by the
\* tally, not BLOCK; the tally records one entry at most; and a final BLOCK
\* from a base action of ALLOW occurs only when one of those two rules fired
\* first, at least four indicators hold and the user is not a VIP.
C29_TallyOneLevel ==
    (Decided /\ call.hasData) =>
        /\ ~(MentionsMultiple /\ MentionsTooMany)
        /\ (BaseOfCall = "ALLOW" /\ ~EarlierRuleFired /\ IndicatorCount >= 4) =>
               /\ decision.action = "VERIFY"
               /\ MentionsMultiple
        /\ (BaseOfCall = "ALLOW" /\ decision.action = "BLOCK") =>
               /\ EarlierRuleFired
               /\ IndicatorCount >= 4
               /\ ~IsVip
               /\ MentionsTooMany

\* a base action of ALLOW reached the tally with five indicators: VERIFY
C29_Witness ==
    /\ Decided /\ call.hasData /\ BaseOfCall = "ALLOW" /\ ~EarlierRuleFired
    /\ IndicatorCount = 5 /\ ~IsVip
    /\ decision.action = "VERIFY" /\ Mentions("Multiple risk indicators (5)")

\* a base action of ALLOW ended BLOCK after the high-amount rule
C29_WitnessBlock ==
    /\ Decided /\ call.hasData /\ BaseOfCall = "ALLOW" /\ decision.action = "BLOCK"
    /\ Mentions("High amount transaction (>5x average)")
    /\ IndicatorCount = 4

\* the entry that closes the reasoning: "Final action: X" after the rules,
\* "Base action: X" when no transaction data was given
ClosingEntry ==
    IF call.hasData
    THEN CASE decision.action = "ALLOW" -> "Final action: ALLOW"
           [] decision.action = "VERIFY" -> "Final action: VERIFY"
           [] OTHER -> "Final action: BLOCK"
    ELSE CASE decision.action = "ALLOW" -> "Base action: ALLOW"
           [] decision.action = "VERIFY" -> "Base action: VERIFY"
           [] OTHER -> "Base action: BLOCK"

\* C15: the rules run in the order high-amount, new-receiver, indicator
\* tally, VIP, micro-night, each reading the action the previous one left.
\* In every decision's reasoning the fraud-score entry is first, the reasons
\* of the rules that fired stand in that order, and the closing entry is last
\* and names the action of the record.  A rule that needs ALLOW never fires
\* after an earlier escalation, and a VIP's BLOCK set by the tally is
\* downgraded by the VIP rule that follows it.
C15_RuleOrder ==
    Decided =>
        LET r == decision.reasoning
        IN  /\ Len(r) >= 2
            /\ r[1] = "Fraud score"
            /\ r[Len(r)] = ClosingEntry
            /\ \A i, j \in 1 .. Len(r) : i < j => Rank(r[i]) < Rank(r[j])
            /\ Mentions("High amount transaction (>5x average)")
                   => ~Mentions("New receiver (<7 days) with high amount")
            /\ MentionsMultiple => ~EarlierRuleFired
            /\ MentionsTooMany => (BaseOfCall = "VERIFY" \/ EarlierRuleFired)
            /\ (MentionsTooMany /\ IsVip)
                   => /\ Mentions("VIP user - downgraded to verification")
                      /\ decision.action = "VERIFY"
            /\ MentionsMicro => (~EarlierRuleFired /\ ~MentionsTally)

\* a decision in which rule 1, the tally and the VIP rule all fired
C15_Witness ==
    /\ Decided /\ call.hasData
    /\ decision.reasoning[2] = "High amount transaction (>5x average)"
    /\ MentionsTooMany
    /\ decision.reasoning[Len(decision.reasoning) - 1] = "VIP user - downgraded to verification"
    /\ decision.reasoning[Len(decision.reasoning)] = "Final action: VERIFY"
    /\ decision.action = "VERIFY"

----------------------------------------------------------------------------
(* Properties of update_thresholds and of concurrent use *)

AllowAboveBlock == Dict([allow |-> Num(80), block |-> Num(30)])

\* C5: a call of update_thresholds that returns failure never writes the
\* thresholds: each of its steps leaves the mapping as it was (no key added,
\* removed or changed); and update_thresholds({allow: 0.8, block: 0.3}) is
\* such a call.
C5_RejectedUpdateWritesNothing ==
    [][\A t \in Updaters :
          /\ (upc'[t] # upc[t] /\ (upc[t] = "invalid" \/ upc'[t] = "invalid"))
                 => thresholds' = thresholds
          /\ (upc[t] = "idle" /\ upc'[t] # "idle" /\ upayload'[t] = AllowAboveBlock)
                 => upc'[t] = "invalid"]_vars

\* update_thresholds({allow: 0.8, block: 0.3}) has returned False
C5_Witness ==
    \E t \in Updaters :
        /\ upc[t] = "idle" /\ upayload[t] = AllowAboveBlock /\ uresult[t] = "False"
        /\ thresholds = FRAUD_THRESHOLDS

\* C6: update_thresholds returns failure whenever any supplied value is
\* non-numeric or outside [0,1], whatever its key; a payload is applied only
\* if every supplied value passed and the resulting allow is below block.
C6_EverySuppliedValueChecked ==
    \A t \in Updaters :
        uresult[t] = "True" =>
            /\ upayload[t].isdict
            /\ \A key \in DOMAIN upayload[t].m : InUnitRange(upayload[t].m[key])

\* C7: allow < block in every reachable state of a shared engine, also
\* across interleaved update_thresholds calls.
C7_AllowBelowBlock == Lt(thresholds["allow"], thresholds["block"])

BaseFor(pr) ==
    IF CallScore.v < pr[1].v THEN "ALLOW" ELSE IF CallScore.v < pr[2].v THEN "VERIFY" ELSE "BLOCK"

Dist(x, y) == IF x >= y THEN x - y ELSE y - x

ConfidenceFor(pr) ==
    LET d == IF Dist(CallScore.v, pr[1].v) <= Dist(CallScore.v, pr[2].v)
             THEN Dist(CallScore.v, pr[1].v) ELSE Dist(CallScore.v, pr[2].v)
    IN  IF d >= 20 THEN 1000 ELSE 50 * d

\* C8: a make_decision call that runs while update_thresholds changes both
\* thresholds takes its base action and its confidence from one pair the
\* engine held during the call, the old one or the new one.
C8_DecisionFromOnePair ==
    (dpc = "done" /\ Decided) =>
        \E pr \in seen :
            /\ decision.action = BaseFor(pr)
            /\ decision.confidence = ConfidenceFor(pr)

----------------------------------------------------------------------------
(* Properties of the confidence *)

\* the smaller of |score - allow| and |score - block|, in hundredths
MinDistance ==
    IF Dist(CallScore.v, AllowNow) <= Dist(CallScore.v, BlockNow)
    THEN Dist(CallScore.v, AllowNow) ELSE Dist(CallScore.v, BlockNow)

\* C16: the confidence of a decision record is min(1, d / 0.2) for d the
\* smaller of |score - allow| and |score - block| under the thresholds the
\* engine holds: it lies in [0,1], is 1.0 when d >= 0.2, is 0 when the score
\* equals a threshold, and from one decision to the next it does not
\* decrease when d does not decrease.
C16_ConfidenceByDistance ==
    [][(decision'.status = "returned" /\ InUnitRange(call'.fraud_score)) =>
          /\ decision'.confidence \in 0 .. 1000
          /\ decision'.confidence = (IF MinDistance' >= 20 THEN 1000 ELSE 50 * MinDistance')
          /\ MinDistance' >= 20 => decision'.confidence = 1000
          /\ (call'.fraud_score.v = AllowNow' \/ call'.fraud_score.v = BlockNow')
                 => decision'.confidence = 0
          /\ (Decided /\ InUnitRange(CallScore) /\ MinDistance <= MinDistance')
                 => decision.confidence <= decision'.confidence]_vars

\* score 0.55 under the default thresholds: d = 0.15, confidence 0.75
C16_Witness ==
    /\ Decided /\ CallScore = Num(55) /\ AllowNow = 40 /\ BlockNow = 70
    /\ decision.confidence = 750

\* a score on the updated allow threshold: confidence 0
C16_WitnessOnThreshold ==
    /\ Decided /\ CallScore = Num(30) /\ AllowNow = 30 /\ BlockNow = 80
    /\ decision.confidence = 0

----------------------------------------------------------------------------
(* Properties of process_action *)

Steps(response) == {response.next_steps[i] : i \in 1 .. Len(response.next_steps)}

\* C25: the response of process_action is determined by the decision's
\* action: ALLOW gives status success with the next step
\* complete_transaction, VERIFY gives pending with send_otp and a
\* verification_methods list, BLOCK gives blocked with contact_support and a
\* support_reference, any other action gives status error with action
\* UNKNOWN; for the three recognized actions the response's action is the
\* decision's, and two calls with the same action get the same status,
\* message, user_message and next_steps.
C25_ResponseByAction ==
    [][aresponse' # NoResponse =>
          /\ decision'.action = "ALLOW" =>
                 /\ aresponse'.status = "success" /\ aresponse'.action = "ALLOW"
                 /\ aresponse'.next_steps = <<"complete_transaction">>
          /\ decision'.action = "VERIFY" =>
                 /\ aresponse'.status = "pending" /\ aresponse'.action = "VERIFY"
                 /\ "send_otp" \in Steps(aresponse')
                 /\ "verification_methods" \in aresponse'.extras
          /\ decision'.action = "BLOCK" =>
                 /\ aresponse'.status = "blocked" /\ aresponse'.action = "BLOCK"
                 /\ "contact_support" \in Steps(aresponse')
                 /\ "support_reference" \in aresponse'.extras
          /\ decision'.action \notin {"ALLOW", "VERIFY", "BLOCK"} =>
                 aresponse'.status = "error" /\ aresponse'.action = "UNKNOWN"
          /\ (aresponse # NoResponse /\ decision.action = decision'.action) =>
                 /\ aresponse'.status = aresponse.status
                 /\ aresponse'.message = aresponse.message
                 /\ aresponse'.user_message = aresponse.user_message
                 /\ aresponse'.next_steps = aresponse.next_steps]_vars

\* a decision with an action the processor does not know
C25_Witness ==
    /\ decision.action = "REVIEW"
    /\ aresponse.status = "error" /\ aresponse.action = "UNKNOWN"

\* a VERIFY decision
C25_WitnessVerify ==
    /\ decision.action = "VERIFY" /\ decision.fraud_score = Num(55)
    /\ aresponse.status = "pending"
    /\ aresponse.next_steps = <<"send_otp", "request_verification">>

----------------------------------------------------------------------------
(* Properties of get_threshold_info *)

\* C26: get_threshold_info returns a snapshot: as long as its caller has
\* not written to the returned value, the value shows the thresholds as
\* they were when it was returned, whatever update_thresholds did since; and
\* a write of the caller to the returned value leaves the thresholds the
\* engine decides with as they were.
C26_InfoIsSnapshot ==
    [][/\ (info'.held /\ info'.writes = 0) => InfoShows' = info'.at
       /\ info'.writes # info.writes => thresholds' = thresholds]_vars

----------------------------------------------------------------------------
(* Properties of engines side by side *)

ExpectedBase(th, score) ==
    IF score.v < th["allow"].v THEN "ALLOW"
    ELSE IF score.v < th["block"].v THEN "VERIFY" ELSE "BLOCK"

ExpectedConfidence(th, score) ==
    LET da == IF score.v >= th["allow"].v THEN score.v - th["allow"].v
              ELSE th["allow"].v - score.v
        db == IF score.v >= th["block"].v THEN score.v - th["block"].v
              ELSE th["block"].v - score.v
        d == IF da <= db THEN da ELSE db
    IN  IF d >= 20 THEN 1000 ELSE 50 * d

\* C28: every engine constructed without custom thresholds (None or an empty
\* mapping) decides with the module-level mapping as the successful updates
\* made through any such engine have left it, whether the engine was
\* constructed before or after them; an engine constructed with a non-empty
\* mapping decides with that mapping as only its own updates have left it.
C28_DefaultEnginesShareThresholds ==
    engines.by # 0 =>
        LET o == engines.objs[engines.by]
            expected == IF o.kind = "custom" THEN o.mine ELSE engines.module
        IN  /\ Decided
            /\ decision.action = ExpectedBase(expected, CallScore)
            /\ decision.confidence = ExpectedConfidence(expected, CallScore)

\* an engine constructed after the update made through another engine
\* decided 0.35 as VERIFY, with the thresholds 0.3 and 0.8
C28_Witness ==
    /\ Len(engines.objs) >= 2
    /\ engines.by = 2 /\ engines.objs[2].kind = "empty" /\ engines.objs[2].late
    /\ engines.objs[1].kind = "None"
    /\ engines.module = [allow |-> Num(30), verify |-> Num(70), block |-> Num(80)]
    /\ CallScore = Num(35) /\ decision.action = "VERIFY" /\ decision.confidence = 250

\* an engine with its own mapping decided 0.35 as ALLOW after that update
C28_WitnessCustom ==
    /\ engines.by # 0 /\ engines.objs[engines.by].kind = "custom"
    /\ engines.module = [allow |-> Num(30), verify |-> Num(70), block |-> Num(80)]
    /\ engines.objs[engines.by].mine = [allow |-> Num(50), block |-> Num(90)]
    /\ CallScore = Num(35) /\ decision.action = "ALLOW"

----------------------------------------------------------------------------
(* Properties of batch_predict *)

BatchEnded == batch.outcome \in {"returned", "raised"}

\* BATCH_ and the 1-based position, zero-padded to four digits
SyntheticId(position) ==
    CASE position = 1 -> "BATCH_0001"
      [] position = 2 -> "BATCH_0002"
      [] position = 3 -> "BATCH_0003"
      [] position = 4 -> "BATCH_0004"
      [] OTHER -> "BATCH_0005"

\* C22: batch_predict on N items returns exactly N results in input order:
\* result i carries item i's transaction_id or, when item i has none, the
\* identifier BATCH_ followed by the position i zero-padded to four digits.
C22_BatchOrderedResults ==
    BatchEnded =>
        /\ batch.outcome = "returned"
        /\ Len(batch.results) = Len(batch.supplied)
        /\ \A k \in 1 .. Len(batch.supplied) :
               batch.results[k].transaction_id =
                   IF batch.supplied[k].td.transaction_id.has
                   THEN batch.supplied[k].td.transaction_id.v
                   ELSE SyntheticId(k)

\* an item that is no record, or that validation rejects
Malformed(item) ==
    \/ ~item.isdict
    \/ \E f \in {"sender_id", "receiver_id", "amount", "transaction_time",
                 "device_id", "ip_address"} : ~item.td[f].has
    \/ "amount" \in item.strs \/ item.td.amount.v <= 0
    \/ "transaction_time" \in item.strs
    \/ item.td.transaction_time.v < 0 \/ item.td.transaction_time.v > 23

\* C23: batch_predict isolates failures per item: whatever malformed items
\* the list holds (missing fields, invalid values, an entry that is no
\* record), the call returns, the result at each malformed position is an
\* error result with action BLOCK, and every other item's decision and
\* action response are those predict_fraud gives for it alone.
C23_BatchIsolatesFailures ==
    BatchEnded =>
        /\ batch.outcome = "returned"
        /\ Len(batch.results) = Len(batch.supplied)
        /\ \A k \in 1 .. Len(batch.supplied) :
               IF Malformed(batch.supplied[k])
               THEN /\ batch.results[k].status = "error"
                    /\ batch.results[k].action_response.action = "BLOCK"
               ELSE LET alone == predict_fraud(TRUE, thresholds, batch.supplied[k],
                                               batch.envs[k])
                    IN  is_loaded =>
                            /\ batch.results[k].fraud_detection = alone.fraud_detection
                            /\ batch.results[k].action_response = alone.action_response

\* C24: batch_predict leaves every record of the caller's list as it was
\* passed in: the same fields with the same values, whether the item
\* succeeded or failed.
C24_RecordsUnchanged == batch.items = batch.supplied

----------------------------------------------------------------------------
(* Properties of predict_fraud *)

\* a collaborator raised in this call: the fault struck at its step
CollaboratorRaised ==
    /\ ppc = "done" /\ plog # <<>>
    /\ \/ penv.fault = "preprocess" /\ plog[Len(plog)] = "Preprocessor"
       \/ penv.fault = "score" /\ plog[Len(plog)] = "Scorer"
       \/ penv.fault = "decide" /\ plog[Len(plog)] = "make_decision"
       \/ penv.fault = "process" /\ plog[Len(plog)] = "process_action"

RaisedMessage ==
    CASE penv.fault = "preprocess" -> "preprocessing failed"
      [] penv.fault = "score" -> "scoring failed"
      [] penv.fault = "decide" -> "decision failed"
      [] OTHER -> "action processing failed"

\* the steps of predict_fraud, in the order of its source
StepOrder == <<"validate", "Preprocessor", "Scorer", "make_decision", "process_action">>

\* what makes _validate_transaction_data raise, read off the argument
MissingFields == {f \in {"sender_id", "receiver_id", "amount", "transaction_time",
                         "device_id", "ip_address"} : ~ptxn.td[f].has}
BadAmount == "amount" \in ptxn.strs \/ ptxn.td.amount.v <= 0
BadHour ==
    \/ "transaction_time" \in ptxn.strs
    \/ ptxn.td.transaction_time.v < 0
    \/ ptxn.td.transaction_time.v > 23
ValidationFails == ~ptxn.isdict \/ MissingFields # {} \/ BadAmount \/ BadHour

\* C17: in every predict_fraud call the steps taken are an initial part of
\* validate, Preprocessor, Scorer, make_decision, process_action, in that
\* order and each at most once; when validation fails the call ends after
\* the validate step, with none of the other four invoked and no decision
\* made.
C17_StepsInOrder ==
    /\ Len(plog) <= Len(StepOrder)
    /\ \A i \in 1 .. Len(plog) : plog[i] = StepOrder[i]
    /\ (ValidationFails /\ ppc # "called" /\ is_loaded) =>
           /\ plog = <<"validate">>
           /\ ppc = "done"
           /\ call = NoCall /\ decision = NoDecision /\ pscore = NaN
    /\ (ppc = "done" /\ presult.outcome = "returned" /\ presult.status # "error") =>
           plog = StepOrder

\* a transaction without sender_id and ip_address: the call ended after validation
C17_Witness ==
    /\ ppc = "done" /\ is_loaded
    /\ MissingFields = {"sender_id", "ip_address"}
    /\ plog = <<"validate">>
    /\ presult.status = "error"

\* a call that took all five steps
C17_WitnessComplete ==
    /\ ppc = "done" /\ plog = StepOrder /\ presult.status # "error"

EmptyIdentifier ==
    \E f \in {"sender_id", "receiver_id", "device_id", "ip_address"} :
        ptxn.td[f].has /\ ptxn.td[f].v = ""

\* the fields a missing-fields error lists
NamedFields == {presult.error.fields[i] : i \in 1 .. Len(presult.error.fields)}

\* C18: validation rejects a transaction whenever one of the six required
\* fields is missing, an identifier is empty, the amount is not a positive
\* number or the hour is not in 0..23: the call ends after the validate step
\* with an error; when several required fields are missing the one error
\* names all of them.
C18_ValidationRejects ==
    (is_loaded /\ ppc # "called" /\ ptxn.isdict
     /\ (MissingFields # {} \/ EmptyIdentifier \/ BadAmount \/ BadHour)) =>
        /\ plog = <<"validate">>
        /\ ppc = "done"
        /\ presult.status = "error"
        /\ MissingFields # {} => NamedFields = MissingFields

\* C19: a transaction submitted to /api/detect-fraud that misses a required
\* field or has an invalid amount or hour is answered by the endpoint's
\* ValueError handler: HTTP 400 with status 'validation_error', which sets it
\* apart from an internal failure.
C19_ValidationErrorSurfaced ==
    (ppc = "responded" /\ is_loaded /\ http.is_json /\ ptxn.isdict /\ ptxn # NoTransaction
     /\ (MissingFields # {} \/ BadAmount \/ BadHour)) =>
        /\ http.code = 400
        /\ http.status = "validation_error"

\* the raw score brought into [0,1]
ClampedRaw ==
    IF penv.raw.v < 0 THEN Num(0) ELSE IF penv.raw.v > 100 THEN Num(100) ELSE penv.raw

\* C20: for every finite raw score of the Scorer, the score handed to
\* make_decision is the raw score clamped to [0,1]; make_decision does not
\* reject it, and when no collaborator raises the call returns a result that
\* is no error result and carries the clamped score.
C20_ScoreClamped ==
    (penv.raw.k = "num" /\ Len(plog) >= 4) =>
        /\ pscore = ClampedRaw
        /\ call.fraud_score = ClampedRaw
        /\ decision.status # "raised"
        /\ (ppc = "done" /\ penv.fault = "none") =>
               /\ presult.outcome = "returned"
               /\ presult.status # "error"
               /\ presult.fraud_detection.fraud_score = ClampedRaw

\* a raw score of 1.3 was decided as 1.0, a raw score below 0 as 0.0
C20_Witness ==
    /\ ppc = "done" /\ penv.fault = "none" /\ penv.raw = Num(130)
    /\ presult.fraud_detection.fraud_score = Num(100)
    /\ presult.action_response.action = "BLOCK"

C20_WitnessBelow ==
    /\ ppc = "done" /\ penv.fault = "none" /\ penv.raw = Num(-20)
    /\ presult.fraud_detection.fraud_score = Num(0)
    /\ presult.status # "error"

\* C21: when the Scorer returns a value that is not finite (nan, inf or
\* -inf), predict_fraud returns the fail-safe error result with action BLOCK
\* and no decision: the value is never clamped into a normal decision, and
\* the call never returns ALLOW or VERIFY.
C21_NonFiniteScoreFailsSafe ==
    (penv.raw.k \in {"nan", "inf"} /\ ppc = "done" /\ Len(plog) >= 4) =>
        /\ presult.outcome = "returned"
        /\ presult.status = "error"
        /\ presult.action_response.action = "BLOCK"
        /\ presult.fraud_detection = NoDecision

PositiveAmount(td) == td.amount.has /\ ~IsNan(td, "amount") /\ td.amount.v > 0

\* validation let the transaction through: a later step was taken
PassedValidation == Len(plog) >= 2

C1_FailSafeBlock ==
    CollaboratorRaised =>
        /\ presult.outcome = "returned"
        /\ presult.status = "error"
        /\ presult.action_response.action = "BLOCK"
        /\ presult.error.msg = RaisedMessage

\* process_action raised for a transaction whose decision was ALLOW
C1_Witness ==
    /\ CollaboratorRaised /\ penv.fault = "process"
    /\ decision.action = "ALLOW"
    /\ presult.action_response.action = "BLOCK"

====
